---- MODULE Spec2Model ----
(***************************************************************************)
(* AnyDocument_AI (src/app.py): one Streamlit session.  A state is the     *)
(* session after one script run: st.session_state (df, chat, show_data),   *)
(* the file-uploader widget, and what the run that handled the last user   *)
(* action received and emitted.  A Python str is a sequence of             *)
(* one-character strings.                                                  *)
(***************************************************************************)
EXTENDS Integers, Sequences, FiniteSets, TLC

\* ---------------------------------------------------------------- bounds
MaxBatch == 2
MaxChat == 2

\* ------------------------------------------------------------- constants
MAX_CONTEXT_CHARS == 8000

SEPARATOR == <<"\n", "\n", "-", "-", "-", "\n", "\n">>

TRUNCATION_MARKER ==
    <<"\n", "\n", "[", ".", ".", ".", " ", "c", "o", "n", "t", "e", "n", "t",
      " ", "t", "r", "u", "n", "c", "a", "t", "e", "d", " ", ".", ".", ".", "]">>

ERROR_PREFIX ==
    <<"A", "n", " ", "e", "r", "r", "o", "r", " ", "o", "c", "c", "u", "r",
      "r", "e", "d", ":", " ">>

\* Optional[str]: None, or a str
None == [tag |-> "None"]
Str(s) == [tag |-> "str", val |-> s]

\* ---------------------------------------------------------- str methods
Whitespace == {" ", "\n", "\t"}

RECURSIVE LStrip(_)
LStrip(s) == IF s # <<>> /\ Head(s) \in Whitespace THEN LStrip(Tail(s)) ELSE s

RECURSIVE RStrip(_)
RStrip(s) ==
    IF s # <<>> /\ s[Len(s)] \in Whitespace
    THEN RStrip(SubSeq(s, 1, Len(s) - 1))
    ELSE s

\* the question kept verbatim: what a handler that forgets .strip() records
StripNothing(s) == s

\* str.strip()
Strip(s) == RStrip(LStrip(s))

\* sep.join(parts)
RECURSIVE Join(_, _)
Join(sep, parts) ==
    IF parts = <<>> THEN <<>>
    ELSE IF Len(parts) = 1 THEN parts[1]
    ELSE parts[1] \o sep \o Join(sep, Tail(parts))

LowerOf == ("P" :> "p") @@ ("D" :> "d") @@ ("F" :> "f")

\* str.lower()
Lower(s) == [i \in 1..Len(s) |-> IF s[i] \in DOMAIN LowerOf THEN LowerOf[s[i]] ELSE s[i]]

\* os.path.splitext(filename)[1]: from the last dot, unless only dots precede it
SplitExt(filename) ==
    LET dots == {i \in 1..Len(filename) : filename[i] = "."}
        last == IF dots = {} THEN 0 ELSE CHOOSE i \in dots : \A j \in dots : j <= i
    IN  IF last > 0 /\ \E j \in 1..(last - 1) : filename[j] # "."
        THEN SubSeq(filename, last, Len(filename))
        ELSE <<>>

\* str(n) of a non-negative int
RECURSIVE Digits(_)
Digits(n) ==
    LET d == <<"0", "1", "2", "3", "4", "5", "6", "7", "8", "9">>
    IN  IF n < 10 THEN <<d[n + 1]>> ELSE Digits(n \div 10) \o <<d[(n % 10) + 1]>>

\* json.dumps(payload, indent=2, ensure_ascii=False) of an int or a flat list of ints
Dumps(payload) ==
    IF payload.type = "int" THEN Digits(payload.val)
    ELSE IF payload.items = <<>> THEN <<"[", "]">>
    ELSE <<"[", "\n">>
         \o Join(<<",", "\n">>,
                 [i \in 1..Len(payload.items) |-> <<" ", " ">> \o Digits(payload.items[i])])
         \o <<"\n", "]">>

\* ------------------------------------------------------- uploaded files
\* A file is its name and what the parsing library makes of its bytes.
BigText == [i \in 1..MAX_CONTEXT_CHARS |-> <<"x", "y", "z">>[(i % 3) + 1]]

BigTxt == [name |-> <<"b", ".", "t", "x", "t">>,
           data |-> [fmt |-> "text", chars |-> BigText]]

ListJson == [name |-> <<"j", ".", "j", "s", "o", "n">>,
             data |-> [fmt |-> "json", payload |-> [type |-> "list", items |-> <<1>>]]]

BlankPdf == [name |-> <<"p", ".", "P", "D", "F">>,
             data |-> [fmt |-> "pdf", pages |-> <<None, Str(<<>>)>>]]

CorruptDocx == [name |-> <<"c", ".", "d", "o", "c", "x">>,
                data |-> [fmt |-> "garbage"]]

OtherXyz == [name |-> <<"o", ".", "x", "y", "z">>,
             data |-> [fmt |-> "text", chars |-> <<"h", "i">>]]

NoteTxt == [name |-> <<"n", ".", "t", "x", "t">>,
            data |-> [fmt |-> "text", chars |-> <<" ", "h", "i">>]]

Files == {BigTxt, ListJson, BlankPdf, CorruptDocx, OtherXyz, NoteTxt}

\* the UploadedFile behind a name of the uploader's list
UploadedFile(name) == CHOOSE f \in Files : f.name = name

\* the files the user has at hand: an everyday folder, and one with a long text
SmallLibrary == {f.name : f \in Files \ {BigTxt}}

BigLibrary == {BigTxt.name, ListJson.name}

\* ------------------------------------------------------------- notices
Notice(level, text, args) == [level |-> level, text |-> text, args |-> args]

\* ----------------------------------------------- extract_text_from_file
\* [ret |-> Optional[str], notices |-> what st.warning / st.error showed]
Returned(text) == [ret |-> Str(text), notices |-> <<>>]

Raised(uf, cause) ==
    [ret |-> None,
     notices |-> <<Notice("error", "Could not process", <<uf.name, cause>>)>>]

extract_text_from_file(uf) ==
    LET extension == Lower(SplitExt(uf.name))
        data == uf.data
    IN  IF extension = <<".", "p", "d", "f">>
        THEN IF data.fmt = "pdf"
             THEN Returned(Join(<<>>, [i \in 1..Len(data.pages) |->
                            IF data.pages[i] = None THEN <<>> ELSE data.pages[i].val]))
             ELSE Raised(uf, "PdfReadError")
        ELSE IF extension = <<".", "d", "o", "c", "x">>
        THEN IF data.fmt = "docx"
             THEN Returned(Join(<<"\n">>, data.paragraphs))
             ELSE Raised(uf, "BadZipFile")
        ELSE IF extension = <<".", "t", "x", "t">>
        THEN IF data.fmt = "text"
             THEN Returned(data.chars)
             ELSE Raised(uf, "UnicodeDecodeError")
        ELSE IF extension = <<".", "j", "s", "o", "n">>
        THEN IF data.fmt = "json"
             THEN Returned(Dumps(data.payload))
             ELSE Raised(uf, "JSONDecodeError")
        ELSE [ret |-> None,
              notices |-> <<Notice("warning", "Unsupported file type",
                                   <<extension, uf.name>>)>>]

\* `if text:` -- None and "" are both falsy
Truthy(text) == text # None /\ text.val # <<>>

\* ------------------------------------------------------- get_model_list
\* What running `ollama list` can do: raise, or print lines (each line is
\* its whitespace-separated tokens, a blank line has none).
HeaderLine == <<"NAME", "ID", "SIZE", "MODIFIED">>

CliOutcomes ==
    {[kind |-> "TimeoutExpired"],
     [kind |-> "stdout",
      lines |-> <<HeaderLine, <<>>, <<"phi3:mini", "4f2222927938", "2.2GB", "now">>>>]}

\* lines[1:] kept when non-blank and not starting with NAME; first token of each
ParseModels(lines) ==
    LET rest == SubSeq(lines, 2, Len(lines))
        keep(line) == line # <<>> /\ line[1] # "NAME"
        kept == SelectSeq(rest, keep)
    IN  [i \in 1..Len(kept) |-> kept[i][1]]

get_model_list(cli) ==
    IF cli.kind = "stdout"
    THEN [ret |-> ParseModels(cli.lines), notices |-> <<>>]
    ELSE IF cli.kind = "FileNotFoundError"
    THEN [ret |-> <<>>,
          notices |-> <<Notice("error", "Ollama is not installed or not on PATH", <<>>)>>]
    ELSE IF cli.kind = "TimeoutExpired"
    THEN [ret |-> <<>>,
          notices |-> <<Notice("error", "Timed out while fetching the Ollama model list", <<>>)>>]
    ELSE [ret |-> <<>>,
          notices |-> <<Notice("error", "Unexpected error fetching model list", <<cli.kind>>)>>]

\* -------------------------------------------------------- build_context
\* a cap that also cuts a string of exactly MAX_CONTEXT_CHARS characters
TruncateAtOrOver(combined) ==
    IF Len(combined) >= MAX_CONTEXT_CHARS
    THEN SubSeq(combined, 1, MAX_CONTEXT_CHARS) \o TRUNCATION_MARKER
    ELSE combined

Truncate(combined) ==
    IF Len(combined) > MAX_CONTEXT_CHARS
    THEN SubSeq(combined, 1, MAX_CONTEXT_CHARS) \o TRUNCATION_MARKER
    ELSE combined

build_context(dataframe) ==
    Truncate(Join(SEPARATOR, [i \in 1..Len(dataframe) |-> dataframe[i].content]))

\* ------------------------------------------------------------ ask_model
\* What ollama.chat can do: answer, or raise.
ChatOutcomes ==
    {[kind |-> "response", content |-> <<" ", "o", "k", "\n">>],
     [kind |-> "raise", exc |-> <<"d", "o", "w", "n">>]}

\* an except clause that lets the failure out of ask_model
AskModelReraises(question, model, context, outcome) ==
    IF outcome.kind = "response"
    THEN [ret |-> Str(Strip(outcome.content)), notices |-> <<>>]
    ELSE [ret |-> None, notices |-> <<>>]

ask_model(question, model, context, outcome) ==
    IF outcome.kind = "response"
    THEN [ret |-> Str(Strip(outcome.content)), notices |-> <<>>]
    ELSE [ret |-> Str(ERROR_PREFIX \o outcome.exc),
          notices |-> <<Notice("error", "Error while querying model", <<model, outcome.exc>>)>>]

\* ---------------------------------------------------------------- state
VARIABLES
    library,         \* the names of the files the user can pick in the uploader
    df,              \* st.session_state.df: the rows [name, content]
    chat,            \* st.session_state.chat: the (question, answer) pairs
    show_data,       \* st.session_state.show_data
    uploaded_files,  \* the st.file_uploader widget: the names of its files
    selected_model,  \* the sidebar's model of the last run ("" when none)
    action,          \* the widget that triggered the last run
    user_question,   \* the form text a submit carried
    notices,         \* st.error / st.warning / st.success / st.info of the last run
    context,         \* the context the last run built, or None
    request,         \* the ollama.chat call of the last run, or None
    response,        \* what that call did (answered or raised), or None
    rerun,           \* the last run ended in st.rerun()
    uncaught,        \* an exception left the last run
    prev_clear       \* the run before the last one was "Clear conversation"

vars == <<library, df, chat, show_data, uploaded_files, selected_model, action,
          user_question, notices, context, request, response, rerun, uncaught, prev_clear>>

Questions == {<<" ", "\n">>, <<" ", "w", "h", "y", "?", " ">>}

\* _init_session_state, before any user action
SessionStart ==
    /\ df = <<>>
    /\ chat = <<>>
    /\ show_data = FALSE
    /\ uploaded_files = <<>>
    /\ selected_model = ""
    /\ action = "start"
    /\ user_question = <<>>
    /\ notices = <<>>
    /\ context = None
    /\ request = None
    /\ response = None
    /\ rerun = FALSE
    /\ uncaught = FALSE
    /\ prev_clear = FALSE

Init == library = SmallLibrary /\ SessionStart

InitBig == library = BigLibrary /\ SessionStart

\* The sidebar of every run: the model selector and the upload summary.
SidebarNotices(cli, files) ==
    get_model_list(cli).notices
    \o (IF get_model_list(cli).ret = <<>>
        THEN <<Notice("warning", "No models found", <<>>)>> ELSE <<>>)
    \o (IF files # <<>>
        THEN <<Notice("success", "file(s) ready", <<Len(files)>>)>>
        ELSE <<Notice("info", "No files uploaded yet", <<>>)>>)

Sidebar(cli, files) ==
    /\ selected_model' \in
          (IF get_model_list(cli).ret = <<>> THEN {""}
           ELSE {get_model_list(cli).ret[i] : i \in 1..Len(get_model_list(cli).ret)})
    /\ prev_clear' = (action = "clear")

NoAsk ==
    /\ user_question' = <<>>
    /\ context' = None
    /\ request' = None
    /\ response' = None

\* ------------------------------------------------------- file uploader
\* The uploader holds at most MaxBatch files, each picked once.
AddFile(f, cli) ==
    /\ Len(uploaded_files) < MaxBatch
    /\ \A i \in 1..Len(uploaded_files) : uploaded_files[i] # f
    /\ uploaded_files' = Append(uploaded_files, f)
    /\ Sidebar(cli, uploaded_files')
    /\ action' = "upload"
    /\ notices' = SidebarNotices(cli, uploaded_files')
    /\ rerun' = FALSE
    /\ uncaught' = FALSE
    /\ NoAsk
    /\ UNCHANGED <<library, df, chat, show_data>>

RemoveFile(i, cli) ==
    /\ i \in 1..Len(uploaded_files)
    /\ uploaded_files' = SubSeq(uploaded_files, 1, i - 1)
                         \o SubSeq(uploaded_files, i + 1, Len(uploaded_files))
    /\ Sidebar(cli, uploaded_files')
    /\ action' = "upload"
    /\ notices' = SidebarNotices(cli, uploaded_files')
    /\ rerun' = FALSE
    /\ uncaught' = FALSE
    /\ NoAsk
    /\ UNCHANGED <<library, df, chat, show_data>>

\* ---------------------------------------------------- "Process and Save"
\* a loop that gives up on the batch at the first file without text
RECURSIVE ProcessLoopStopsAtFailure(_, _, _)
ProcessLoopStopsAtFailure(files, idx, acc) ==
    IF idx > Len(files) THEN acc
    ELSE LET r == extract_text_from_file(UploadedFile(files[idx]))
         IN  IF Truthy(r.ret)
             THEN ProcessLoopStopsAtFailure(files, idx + 1,
                      [records |-> Append(acc.records,
                                          [name |-> files[idx], content |-> r.ret.val]),
                       notices |-> acc.notices \o r.notices])
             ELSE [records |-> acc.records, notices |-> acc.notices \o r.notices]

\* for idx, uf in enumerate(uploaded_files): extract, append when truthy
RECURSIVE ProcessLoop(_, _, _)
ProcessLoop(files, idx, acc) ==
    IF idx > Len(files) THEN acc
    ELSE LET r == extract_text_from_file(UploadedFile(files[idx]))
         IN  ProcessLoop(files, idx + 1,
                 [records |-> IF Truthy(r.ret)
                              THEN Append(acc.records,
                                          [name |-> files[idx], content |-> r.ret.val])
                              ELSE acc.records,
                  notices |-> acc.notices \o r.notices])

\* a handler that saves whatever the loop produced
AnyRecords(records) == TRUE

\* `if records:`
HasRecords(records) == records # <<>>

\* a handler that adds the batch to the table it already holds
MergedTable(old, records) == old \o records

\* st.session_state.df = pd.DataFrame(records)
NewTable(old, records) == records

\* csv_ok: whether df.to_csv(DATASET_FILE) returned or raised; when it raises
\* the script stops with df assigned and show_data not yet set
Process(cli, csv_ok) ==
    LET done == ProcessLoop(uploaded_files, 1, [records |-> <<>>, notices |-> <<>>])
        side == SidebarNotices(cli, uploaded_files)
    IN  /\ Sidebar(cli, uploaded_files)
        /\ action' = "process"
        /\ NoAsk
        /\ UNCHANGED <<library, chat, uploaded_files>>
        /\ IF uploaded_files = <<>>
           THEN /\ csv_ok
                /\ notices' = side \o <<Notice("error", "Please upload at least one file", <<>>)>>
                /\ rerun' = FALSE
                /\ uncaught' = FALSE
                /\ UNCHANGED <<df, show_data>>
           ELSE IF HasRecords(done.records)
           THEN /\ df' = NewTable(df, done.records)
                /\ IF csv_ok
                   THEN /\ show_data' = TRUE
                        /\ notices' = side \o done.notices
                               \o <<Notice("success", "file(s) processed and saved",
                                           <<Len(done.records)>>)>>
                        /\ rerun' = TRUE
                        /\ uncaught' = FALSE
                   ELSE /\ notices' = side \o done.notices
                        /\ rerun' = FALSE
                        /\ uncaught' = TRUE
                        /\ UNCHANGED show_data
           ELSE /\ csv_ok
                /\ notices' = side \o done.notices
                       \o <<Notice("error", "No valid content could be extracted", <<>>)>>
                /\ rerun' = FALSE
                /\ uncaught' = FALSE
                /\ UNCHANGED <<df, show_data>>

\* ------------------------------------------------------------ Q&A form
\* a form rendered whatever the table holds
FormAlways(dataframe) == TRUE

\* `if not st.session_state.df.empty:` -- the form exists
QAFormVisible(dataframe) == dataframe # <<>>

\* a handler that never looks at the selected model
AnyModel(model) == TRUE

\* `elif not selected_model:` is not taken
ModelChosen(model) == model # ""

\* a handler that puts the newest exchange first
PrependEntry(history, entry) == <<entry>> \o history

\* st.session_state.chat.append((question, answer))
AppendEntry(history, entry) == Append(history, entry)

\* An ask_model that returns no answer stands for an exception leaving it:
\* the script stops before the append.  The history is capped at MaxChat.
Ask(question, cli, outcome) ==
    LET side == SidebarNotices(cli, uploaded_files)
    IN  /\ QAFormVisible(df)
        /\ Sidebar(cli, uploaded_files)
        /\ action' = "ask"
        /\ user_question' = question
        /\ UNCHANGED <<library, df, show_data, uploaded_files>>
        /\ IF Strip(question) = <<>>
           THEN /\ notices' = side \o <<Notice("warning", "Please enter a question", <<>>)>>
                /\ context' = None
                /\ request' = None
                /\ response' = None
                /\ rerun' = FALSE
                /\ uncaught' = FALSE
                /\ UNCHANGED chat
           ELSE IF ~ModelChosen(selected_model')
           THEN /\ notices' = side \o <<Notice("error", "No model selected", <<>>)>>
                /\ context' = None
                /\ request' = None
                /\ response' = None
                /\ rerun' = FALSE
                /\ uncaught' = FALSE
                /\ UNCHANGED chat
           ELSE LET ctx == build_context(df)
                    res == ask_model(Strip(question), selected_model', ctx, outcome)
                IN  /\ Len(chat) < MaxChat
                    /\ context' = Str(ctx)
                    /\ request' = [model |-> selected_model', question |-> Strip(question)]
                    /\ response' = outcome
                    /\ notices' = side \o res.notices
                    /\ IF res.ret = None
                       THEN /\ rerun' = FALSE
                            /\ uncaught' = TRUE
                            /\ UNCHANGED chat
                       ELSE /\ chat' = AppendEntry(chat, <<Strip(question), res.ret.val>>)
                            /\ rerun' = TRUE
                            /\ uncaught' = FALSE

\* ------------------------------------------------- "Clear conversation"
\* a clear that drops only the newest exchange
DropNewest(history) == SubSeq(history, 1, Len(history) - 1)

\* st.session_state.chat = []
ClearedChat(history) == <<>>

Clear(cli) ==
    /\ chat # <<>>
    /\ Sidebar(cli, uploaded_files)
    /\ action' = "clear"
    /\ chat' = ClearedChat(chat)
    /\ notices' = SidebarNotices(cli, uploaded_files)
    /\ rerun' = TRUE
    /\ uncaught' = FALSE
    /\ NoAsk
    /\ UNCHANGED <<library, df, show_data, uploaded_files>>

\* ------------------------------------------------------- specification
Next ==
    \/ \E f \in library, cli \in CliOutcomes : AddFile(f, cli)
    \/ \E i \in 1..MaxBatch, cli \in CliOutcomes : RemoveFile(i, cli)
    \/ \E cli \in CliOutcomes, csv_ok \in BOOLEAN : Process(cli, csv_ok)
    \/ \E question \in Questions, cli \in CliOutcomes, outcome \in ChatOutcomes :
          Ask(question, cli, outcome)
    \/ \E cli \in CliOutcomes : Clear(cli)

Spec == Init /\ [][Next]_vars

SpecBig == InitBig /\ [][Next]_vars

\* =============================================================== claims
\* the concatenation C of the first k records of a table: the contents in
\* table order, the separator between consecutive records
RECURSIVE Concatenation(_, _)
Concatenation(table, k) ==
    IF k = 0 THEN <<>>
    ELSE IF k = 1 THEN table[1].content
    ELSE Concatenation(table, k - 1) \o SEPARATOR \o table[k].content

IsPrefix(s, t) == Len(s) <= Len(t) /\ s = SubSeq(t, 1, Len(s))

\* C1: the context built from the document table never exceeds
\* MAX_CONTEXT_CHARS characters.
C1_ContextWithinBudget ==
    context # None => Len(context.val) <= MAX_CONTEXT_CHARS

ReturnedStringIsPrefix(returned, C) ==
    IF Len(C) <= MAX_CONTEXT_CHARS
    THEN returned = C
    ELSE /\ Len(returned) = MAX_CONTEXT_CHARS + Len(TRUNCATION_MARKER)
         /\ IsPrefix(returned, C)

\* C2 as stated: with C the concatenation and L its length, the context is C
\* when L <= budget; when L > budget it has length budget + marker and is,
\* as a whole, a prefix of C.
C2_ReturnedStringIsPrefix ==
    context # None => ReturnedStringIsPrefix(context.val, Concatenation(df, Len(df)))

TruncatedPrefixThenMarker(returned, C) ==
    IF Len(C) <= MAX_CONTEXT_CHARS
    THEN returned = C
    ELSE /\ Len(returned) = MAX_CONTEXT_CHARS + Len(TRUNCATION_MARKER)
         /\ IsPrefix(SubSeq(returned, 1, MAX_CONTEXT_CHARS), C)
         /\ SubSeq(returned, MAX_CONTEXT_CHARS + 1, Len(returned)) = TRUNCATION_MARKER

\* C2 amended: the context is C when L <= budget; when L > budget it has
\* length budget + marker, its first budget characters are a prefix of C and
\* the characters after them are the truncation marker.
C2_TruncatedPrefixThenMarker ==
    context # None => TruncatedPrefixThenMarker(context.val, Concatenation(df, Len(df)))

C2_Witness ==
    /\ context # None
    /\ Len(df) >= 2
    /\ Len(Concatenation(df, Len(df))) > MAX_CONTEXT_CHARS

\* ---------------------------------------------------------------- C3..C5
\* the positions of a batch whose file yields non-empty text
Yielding(files) ==
    {i \in 1..Len(files) : Truthy(extract_text_from_file(UploadedFile(files[i])).ret)}

\* the k-th yielding position of a batch, in upload order
KthYielding(files, k) ==
    CHOOSE i \in Yielding(files) : Cardinality({j \in Yielding(files) : j <= i}) = k

\* one record per yielding file, in upload order, name and extracted text
OneRecordPerYieldingFile(table, files) ==
    /\ Len(table) = Cardinality(Yielding(files))
    /\ \A k \in 1..Len(table) :
          /\ table[k].name = files[KthYielding(files, k)]
          /\ Str(table[k].content)
                = extract_text_from_file(UploadedFile(files[KthYielding(files, k)])).ret

\* C3: after "process" on a batch in which at least one file yields text, the
\* document table holds exactly one record per file that yielded non-empty
\* text, in upload order, with the file's name and its extracted text; a file
\* that is unsupported, fails or yields nothing adds no record and stops no
\* later file.
C3_OneRecordPerYieldingFile ==
    [][(action' = "process" /\ Yielding(uploaded_files) # {})
          => OneRecordPerYieldingFile(df', uploaded_files)]_vars

C3_Witness ==
    /\ action = "process"
    /\ \E i, j \in 1..Len(uploaded_files) :
          i < j /\ i \notin Yielding(uploaded_files) /\ j \in Yielding(uploaded_files)
    /\ OneRecordPerYieldingFile(df, uploaded_files)

\* C4: a successful "process" while a table is loaded replaces the table by
\* the records of the new batch only (no row of the old table survives,
\* nothing is merged) and leaves the conversation history unchanged.
C4_ReplacedWholesale ==
    [][(action' = "process" /\ df # <<>> /\ (rerun' \/ uncaught'))
          => /\ Len(df') <= Len(uploaded_files)
             /\ \A k \in 1..Len(df') :
                   \E i \in 1..Len(uploaded_files) :
                      /\ df'[k].name = uploaded_files[i]
                      /\ Str(df'[k].content)
                            = extract_text_from_file(UploadedFile(uploaded_files[i])).ret
             /\ chat' = chat]_vars

C4_Witness ==
    /\ action = "process"
    /\ rerun
    /\ chat # <<>>
    /\ df # <<>>

BatchError(shown) ==
    \E i \in 1..Len(shown) :
       /\ shown[i].level = "error"
       /\ shown[i].text \in {"Please upload at least one file",
                             "No valid content could be extracted"}

\* C5: when "process" yields no record (no files, or no file with text), a
\* batch-level error is reported and the document table, the show-preview
\* flag and the conversation history keep their values.
C5_EmptyBatchLeavesState ==
    [][(action' = "process" /\ Yielding(uploaded_files) = {})
          => /\ BatchError(notices')
             /\ df' = df
             /\ show_data' = show_data
             /\ chat' = chat]_vars

C5_Witness ==
    /\ action = "process"
    /\ uploaded_files # <<>>
    /\ Yielding(uploaded_files) = {}
    /\ BatchError(notices)
    /\ df # <<>>
    /\ chat # <<>>

\* --------------------------------------------------------------- C6..C10
Blank(s) == \A i \in 1..Len(s) : s[i] \in Whitespace

\* t is s without its leading and trailing whitespace
IsTrimOf(t, s) ==
    \E i \in 1..(Len(s) + 1), j \in 0..Len(s) :
       /\ t = SubSeq(s, i, j)
       /\ \A k \in 1..(i - 1) : s[k] \in Whitespace
       /\ \A k \in (j + 1)..Len(s) : s[k] \in Whitespace
       /\ t = <<>> \/ (t[1] \notin Whitespace /\ t[Len(t)] \notin Whitespace)

NamesModel(shown, model) ==
    \E i \in 1..Len(shown) :
       /\ shown[i].level = "error"
       /\ shown[i].text = "Error while querying model"
       /\ shown[i].args[1] = model

\* the step appended exactly one exchange, and touched nothing else of the session
OneExchangeAdded ==
    /\ Len(chat') = Len(chat) + 1
    /\ SubSeq(chat', 1, Len(chat)) = chat
    /\ IsTrimOf(chat'[Len(chat')][1], user_question')
    /\ df' = df
    /\ show_data' = show_data

C7_AskGated ==
    [][/\ (action' = "ask" /\ (Blank(user_question') \/ selected_model' = ""))
             => /\ request' = None
                /\ context' = None
                /\ chat' = chat
                /\ df' = df
       /\ (request' # None \/ Len(chat') > Len(chat))
             => /\ action' = "ask"
                /\ ~Blank(user_question')
                /\ selected_model' # ""
                /\ request'.model = selected_model'
                /\ df # <<>>]_vars

C7_Witness ==
    /\ action = "ask"
    /\ ~Blank(user_question)
    /\ selected_model = ""
    /\ request = None
    /\ df # <<>>

\* the answer the last run's model call amounts to
AnswerOf(r, a) ==
    IF r.kind = "raise" THEN a = ERROR_PREFIX \o r.exc ELSE IsTrimOf(a, r.content)

\* C8: clearing the history leaves the table as it is (still non-empty), and
\* an accepted question right after a clear yields a history of length 1
\* holding the trimmed question and its answer.
C8_ClearThenAsk ==
    [][/\ action' = "clear" => (chat' = <<>> /\ df' = df /\ df' # <<>>)
       /\ (action = "clear" /\ action' = "ask" /\ request' # None)
             => /\ Len(chat') = 1
                /\ IsTrimOf(chat'[1][1], user_question')
                /\ AnswerOf(response', chat'[1][2])]_vars

C8_Witness ==
    /\ prev_clear
    /\ action = "ask"
    /\ request # None
    /\ Len(chat) = 1

\* C9: every step leaves the history unchanged, or adds exactly one entry at
\* its end (an accepted question), or empties it (the clear action); process
\* and upload steps never change it.
C9_AppendOnlyBetweenClears ==
    [][/\ \/ chat' = chat
          \/ /\ action' = "ask"
             /\ Len(chat') = Len(chat) + 1
             /\ SubSeq(chat', 1, Len(chat)) = chat
          \/ /\ action' = "clear"
             /\ chat' = <<>>
       /\ action' \in {"process", "upload"} => chat' = chat]_vars

C9_Witness ==
    /\ action = "ask"
    /\ Len(chat) >= 2
    /\ chat[1] # chat[2]

\* C10: a non-empty history implies a non-empty table, the show-preview flag
\* implies a non-empty table, and no step turns a non-empty table into an
\* empty one.
C10_HistoryAndPreviewNeedTable ==
    /\ [](chat # <<>> => df # <<>>)
    /\ [](show_data => df # <<>>)
    /\ [][df # <<>> => df' # <<>>]_vars

C10_Witness ==
    /\ chat # <<>>
    /\ show_data
    /\ df # <<>>
    /\ action = "process"
====
